---------------------------- MODULE Spec2Model ----------------------------
(***************************************************************************)
(* The polyphonic pitch synth of src/worklets/pitch-synth.worklet.ts: the  *)
(* oscillator bank, the RMS normalisation table, the per-voice ADSR        *)
(* envelope (PolyVoice), the voice pool and its message handlers and the   *)
(* render loop (PitchSynthProcessor).                                      *)
(*                                                                         *)
(* Numbers.  Durations are in hundredths of a second and levels (sustain,  *)
(* volume, oscillator samples, gains) in thousandths or hundredths as      *)
(* noted at each definition; the envelope amplitude is kept as an exact    *)
(* fraction <<numerator, denominator>>.  Phases are in thousandths of a    *)
(* cycle.                                                                  *)
(***************************************************************************)
EXTENDS Integers, Sequences, FiniteSets, TLC

(* ------------------------------ bounds -------------------------------- *)

\* The host's sampleRate global (samples per second).
SampleRate == 4

\* A render block has at most MaxFrames frames.
MaxFrames == 2

\* On the pool of the default size at most MaxSounding voices sound at once.
MaxSounding == 1

\* At most MaxPosts messages are posted to the port.
MaxPosts == 3

(* -------------------------- fixed-point units -------------------------- *)

\* Oscillator samples, gains, volume and output samples are in 1/Scale.
Scale == 1000

\* Phases are in 1/PhaseRes of a cycle.
PhaseRes == 1000

\* Envelope durations are in 1/TimeRes of a second, sustain levels in 1/LevelRes.
TimeRes == 100

LevelRes == 100

(* ------------------------------ utilities ------------------------------ *)

Max(a, b) == IF a >= b THEN a ELSE b

Min(a, b) == IF a <= b THEN a ELSE b

Abs(x) == IF x < 0 THEN -x ELSE x

Sign(x) == IF x > 0 THEN 1 ELSE IF x < 0 THEN -1 ELSE 0

\* a / b cut to a whole number of units towards zero, so that, as in floating
\* point, -x / b = -(x / b).
Quot(a, b) == Sign(a) * Sign(b) * (Abs(a) \div Abs(b))

clamp(x, lo, hi) == Max(lo, Min(hi, x))

\* A conversion without the floor of one sample.
secondsToSamples_NoFloor(sec, sr) == (Max(0, sec) * sr) \div TimeRes

\* sec in 1/TimeRes seconds; Math.floor of a non-negative quotient is \div.
secondsToSamples(sec, sr) == Max(1, (Max(0, sec) * sr) \div TimeRes)

\* round(Scale * sin(2*pi*p/PhaseRes)) for p = 0..250, the first quarter cycle.
SinQuarter == <<
    0, 6, 13, 19, 25, 31, 38, 44, 50, 57, 63, 69, 75, 82, 88, 94, 100, 107,
    113, 119, 125, 132, 138, 144, 150, 156, 163, 169, 175, 181, 187, 194, 200, 206, 212, 218,
    224, 230, 236, 243, 249, 255, 261, 267, 273, 279, 285, 291, 297, 303, 309, 315, 321, 327,
    333, 339, 345, 351, 356, 362, 368, 374, 380, 386, 391, 397, 403, 409, 414, 420, 426, 431,
    437, 443, 448, 454, 460, 465, 471, 476, 482, 487, 493, 498, 504, 509, 514, 520, 525, 531,
    536, 541, 546, 552, 557, 562, 567, 572, 578, 583, 588, 593, 598, 603, 608, 613, 618, 623,
    628, 633, 637, 642, 647, 652, 657, 661, 666, 671, 675, 680, 685, 689, 694, 698, 703, 707,
    712, 716, 720, 725, 729, 733, 738, 742, 746, 750, 754, 758, 762, 766, 771, 775, 778, 782,
    786, 790, 794, 798, 802, 805, 809, 813, 816, 820, 824, 827, 831, 834, 838, 841, 844, 848,
    851, 854, 858, 861, 864, 867, 870, 873, 876, 879, 882, 885, 888, 891, 894, 897, 899, 902,
    905, 907, 910, 913, 915, 918, 920, 923, 925, 927, 930, 932, 934, 937, 939, 941, 943, 945,
    947, 949, 951, 953, 955, 957, 959, 960, 962, 964, 965, 967, 969, 970, 972, 973, 975, 976,
    977, 979, 980, 981, 982, 983, 985, 986, 987, 988, 989, 990, 990, 991, 992, 993, 994, 994,
    995, 996, 996, 997, 997, 998, 998, 998, 999, 999, 999, 1000, 1000, 1000, 1000, 1000, 1000
  >>

\* Math.sin(2*pi*phase) for a phase p in 0..PhaseRes-1, in 1/Scale.
Sin(p) ==
  IF p <= 250 THEN SinQuarter[p + 1]
  ELSE IF p <= 500 THEN SinQuarter[500 - p + 1]
  ELSE IF p <= 750 THEN -SinQuarter[p - 500 + 1]
  ELSE -SinQuarter[1000 - p + 1]

\* Math.pow(x, n) for x in 1/Scale and a small whole n.
RECURSIVE Pow(_, _)
Pow(x, n) == IF n = 0 THEN Scale ELSE (x * Pow(x, n - 1)) \div Scale

powerSin(phase, n) == Pow(Abs(Sin(phase)), n) * Sign(Sin(phase))

\* sin(2*pi*phase + k*2*pi*sin(2*pi*phase)), k in tenths.
selfMod(phase, k) == Sin((phase + (k * Sin(phase)) \div 10) % PhaseRes)

oscSample(w, phase) ==
  CASE w = "square" -> IF phase < PhaseRes \div 2 THEN Scale ELSE -Scale
    [] w = "triangle" -> Scale - (4 * Abs(phase - PhaseRes \div 2) * Scale) \div PhaseRes
    [] w = "sawtooth" -> (2 * phase * Scale) \div PhaseRes - Scale
    [] w = "power2" -> powerSin(phase, 2)
    [] w = "power3" -> powerSin(phase, 3)
    [] w = "power4" -> powerSin(phase, 4)
    [] w = "selfmod0.1" -> selfMod(phase, 1)
    [] w = "selfmod0.2" -> selfMod(phase, 2)
    [] w = "selfmod0.3" -> selfMod(phase, 3)
    [] OTHER -> Sin(phase)

RMS_SAMPLE_POINTS == 50

RMS_NUM_CYCLES == 1

AVG_EXPECTED_SIMULTANEOUS_VOICES == 6

\* floor(sqrt(x)) for 0 <= x <= Scale * Scale.
Isqrt(x) == CHOOSE r \in 0..Scale : r * r <= x /\ (r + 1) * (r + 1) > x

\* The loop of computeWaveformRMS from index i on: the sum of squared samples.
RECURSIVE SumSquares(_, _, _, _)
SumSquares(w, pointsPerCycle, totalPoints, i) ==
  IF i >= totalPoints THEN 0
  ELSE LET phase == ((i * PhaseRes) \div pointsPerCycle) % PhaseRes
           s == oscSample(w, phase)
       IN  s * s + SumSquares(w, pointsPerCycle, totalPoints, i + 1)

computeWaveformRMS(w, pointsPerCycle, cycles) ==
  LET totalPoints == Max(1, pointsPerCycle) * Max(1, cycles)
  IN  Isqrt(SumSquares(w, pointsPerCycle, totalPoints, 0) \div totalPoints)

KNOWN_WAVEFORMS ==
  {"sine", "square", "triangle", "sawtooth", "power2", "power3", "power4",
   "selfmod0.1", "selfmod0.2", "selfmod0.3"}

targetWave == "triangle"

targetRMS == computeWaveformRMS(targetWave, RMS_SAMPLE_POINTS, RMS_NUM_CYCLES)

\* A table that takes the degenerate branch, gain 1, for every waveform.
NORMALIZATION_GAIN_Unity == [w \in KNOWN_WAVEFORMS |-> Scale]

NORMALIZATION_GAIN ==
  [w \in KNOWN_WAVEFORMS |->
    LET r == computeWaveformRMS(w, RMS_SAMPLE_POINTS, RMS_NUM_CYCLES)
    IN  IF r > 0 THEN (targetRMS * Scale) \div r ELSE Scale]

\* NORMALIZATION_GAIN[waveform] ?? 1
NormGain(w) == IF w \in DOMAIN NORMALIZATION_GAIN THEN NORMALIZATION_GAIN[w] ELSE Scale

(* -------------------------------- voice -------------------------------- *)

\* A PolyVoice after its constructor.  The last five fields record history:
\* amp is the envAmp the last process() call of the current note computed (a
\* fraction, <<0, 1>> before the first call); offCalls is the number of
\* process() calls since noteOff moved the voice to release, up to the call that
\* ends the release (-1 when no noteOff is being followed); claimed is, from a
\* noteOn to the next process() call, the state the voice was claimed in
\* ("" otherwise); onCalls is the number of process() calls since the noteOn,
\* up to the call that brings the voice to sustain (-1 once a call finds the
\* voice in release or idle); forcedCalls is the number of process() calls
\* since the last forceRelease, up to the call that ends the release (-1 when
\* no forceRelease is being followed).
NewVoice ==
  [state |-> "idle", freq |-> 440, samples |-> 0, envSamples |-> 0,
   attackSamples |-> 0, decaySamples |-> 0, releaseSamples |-> 0,
   sustainLevel |-> 0, noteId |-> 0, waveform |-> "sine",
   amp |-> <<0, 1>>, offCalls |-> -1, claimed |-> "", onCalls |-> -1,
   forcedCalls |-> -1]

\* A noteOn that leaves the stage counter where it was.
PolyVoice_noteOn_KeepsCounter(v, freq, id, env) ==
  [v EXCEPT !.freq = freq,
            !.noteId = id,
            !.state = "attack",
            !.samples = 0,
            !.attackSamples = secondsToSamples(env.attack, SampleRate),
            !.decaySamples = secondsToSamples(env.decay, SampleRate),
            !.releaseSamples = secondsToSamples(env.release, SampleRate),
            !.sustainLevel = clamp(env.sustain, 0, LevelRes),
            !.amp = <<0, 1>>, !.offCalls = -1, !.claimed = v.state, !.onCalls = 0,
            !.forcedCalls = -1]

\* A noteOn that lets the oscillator's phase run on.
PolyVoice_noteOn_KeepsPhase(v, freq, id, env) ==
  [v EXCEPT !.freq = freq,
            !.noteId = id,
            !.state = "attack",
            !.envSamples = 0,
            !.attackSamples = secondsToSamples(env.attack, SampleRate),
            !.decaySamples = secondsToSamples(env.decay, SampleRate),
            !.releaseSamples = secondsToSamples(env.release, SampleRate),
            !.sustainLevel = clamp(env.sustain, 0, LevelRes),
            !.amp = <<0, 1>>, !.offCalls = -1, !.claimed = v.state, !.onCalls = 0,
            !.forcedCalls = -1]

PolyVoice_noteOn(v, freq, id, env) ==
  [v EXCEPT !.freq = freq,
            !.noteId = id,
            !.state = "attack",
            !.envSamples = 0,
            !.samples = 0,
            !.attackSamples = secondsToSamples(env.attack, SampleRate),
            !.decaySamples = secondsToSamples(env.decay, SampleRate),
            !.releaseSamples = secondsToSamples(env.release, SampleRate),
            !.sustainLevel = clamp(env.sustain, 0, LevelRes),
            !.amp = <<0, 1>>, !.offCalls = -1, !.claimed = v.state, !.onCalls = 0,
            !.forcedCalls = -1]

\* A noteOff that leaves the stage counter where it was.
PolyVoice_noteOff_KeepsCounter(v, id) ==
  IF v.state # "idle" /\ v.noteId = id /\ v.state # "release"
  THEN [v EXCEPT !.state = "release", !.offCalls = 0]
  ELSE v

\* A noteOff that does not compare the note id.
PolyVoice_noteOff_AnyId(v, id) ==
  IF v.state # "idle" /\ v.state # "release"
  THEN [v EXCEPT !.state = "release", !.envSamples = 0, !.offCalls = 0]
  ELSE v

\* A noteOff that restarts a release in progress.
PolyVoice_noteOff_Restarts(v, id) ==
  IF v.state # "idle" /\ v.noteId = id
  THEN [v EXCEPT !.state = "release", !.envSamples = 0, !.offCalls = 0]
  ELSE v

PolyVoice_noteOff(v, id) ==
  IF v.state # "idle" /\ v.noteId = id /\ v.state # "release"
  THEN [v EXCEPT !.state = "release", !.envSamples = 0, !.offCalls = 0]
  ELSE v

\* A forceRelease that leaves the stage counter where it was.
PolyVoice_forceRelease_KeepsCounter(v) ==
  IF v.state # "idle"
  THEN [v EXCEPT !.state = "release", !.offCalls = -1, !.forcedCalls = 0]
  ELSE v

\* A forceRelease that silences the voice at once.
PolyVoice_forceRelease_Mutes(v) ==
  IF v.state # "idle"
  THEN [v EXCEPT !.state = "idle", !.envSamples = 0, !.noteId = 0, !.offCalls = -1,
                 !.forcedCalls = 0]
  ELSE v

PolyVoice_forceRelease(v) ==
  IF v.state # "idle"
  THEN [v EXCEPT !.state = "release", !.envSamples = 0, !.offCalls = -1,
                 !.forcedCalls = 0]
  ELSE v

\* A setWaveform that leaves the voice's waveform as it was.
PolyVoice_setWaveform_Ignores(v, w) == v

PolyVoice_setWaveform(v, w) == [v EXCEPT !.waveform = w]

\* An envelope whose release ramp starts one step below the sustain level.
EnvAmp_ReleaseOneLower(v) ==
  CASE v.state = "attack" -> <<v.envSamples, v.attackSamples>>
    [] v.state = "decay" ->
         <<LevelRes * v.decaySamples + (v.sustainLevel - LevelRes) * v.envSamples,
           LevelRes * v.decaySamples>>
    [] v.state = "sustain" -> <<v.sustainLevel, LevelRes>>
    [] v.state = "release" ->
         <<v.sustainLevel * Max(0, v.releaseSamples - v.envSamples - 1),
           LevelRes * v.releaseSamples>>
    [] OTHER -> <<0, 1>>

\* The envelope amplitude process() computes in the voice's state.
EnvAmp(v) ==
  CASE v.state = "attack" -> <<v.envSamples, v.attackSamples>>
    [] v.state = "decay" ->
         <<LevelRes * v.decaySamples + (v.sustainLevel - LevelRes) * v.envSamples,
           LevelRes * v.decaySamples>>
    [] v.state = "sustain" -> <<v.sustainLevel, LevelRes>>
    [] v.state = "release" ->
         <<v.sustainLevel * (v.releaseSamples - v.envSamples),
           LevelRes * v.releaseSamples>>
    [] OTHER -> <<0, 1>>

\* A process() whose release ends without clearing noteId.
EnvStep_KeepsOwner(v) ==
  CASE v.state = "attack" ->
         IF v.envSamples >= v.attackSamples
         THEN [v EXCEPT !.state = "decay", !.envSamples = 0]
         ELSE [v EXCEPT !.envSamples = @ + 1]
    [] v.state = "decay" ->
         IF v.envSamples >= v.decaySamples
         THEN [v EXCEPT !.state = "sustain", !.envSamples = 0]
         ELSE [v EXCEPT !.envSamples = @ + 1]
    [] v.state = "release" ->
         IF v.envSamples >= v.releaseSamples
         THEN [v EXCEPT !.state = "idle", !.envSamples = 0]
         ELSE [v EXCEPT !.envSamples = @ + 1]
    [] OTHER -> v

\* A process() whose release stage ends in sustain, not in idle.
EnvStep_ReleaseToSustain(v) ==
  CASE v.state = "attack" ->
         IF v.envSamples >= v.attackSamples
         THEN [v EXCEPT !.state = "decay", !.envSamples = 0]
         ELSE [v EXCEPT !.envSamples = @ + 1]
    [] v.state = "decay" ->
         IF v.envSamples >= v.decaySamples
         THEN [v EXCEPT !.state = "sustain", !.envSamples = 0]
         ELSE [v EXCEPT !.envSamples = @ + 1]
    [] v.state = "release" ->
         IF v.envSamples >= v.releaseSamples
         THEN [v EXCEPT !.state = "sustain", !.envSamples = 0]
         ELSE [v EXCEPT !.envSamples = @ + 1]
    [] OTHER -> v

\* A process() whose sustain stage ends by itself, on its first call.
EnvStep_SustainEnds(v) ==
  CASE v.state = "attack" ->
         IF v.envSamples >= v.attackSamples
         THEN [v EXCEPT !.state = "decay", !.envSamples = 0]
         ELSE [v EXCEPT !.envSamples = @ + 1]
    [] v.state = "decay" ->
         IF v.envSamples >= v.decaySamples
         THEN [v EXCEPT !.state = "sustain", !.envSamples = 0]
         ELSE [v EXCEPT !.envSamples = @ + 1]
    [] v.state = "sustain" -> [v EXCEPT !.state = "release", !.envSamples = 0]
    [] v.state = "release" ->
         IF v.envSamples >= v.releaseSamples
         THEN [v EXCEPT !.state = "idle", !.envSamples = 0, !.noteId = 0]
         ELSE [v EXCEPT !.envSamples = @ + 1]
    [] OTHER -> v

\* A process() that leaves attack and decay one call late (> for >=).
EnvStep_LeavesLate(v) ==
  CASE v.state = "attack" ->
         IF v.envSamples > v.attackSamples
         THEN [v EXCEPT !.state = "decay", !.envSamples = 0]
         ELSE [v EXCEPT !.envSamples = @ + 1]
    [] v.state = "decay" ->
         IF v.envSamples > v.decaySamples
         THEN [v EXCEPT !.state = "sustain", !.envSamples = 0]
         ELSE [v EXCEPT !.envSamples = @ + 1]
    [] v.state = "release" ->
         IF v.envSamples >= v.releaseSamples
         THEN [v EXCEPT !.state = "idle", !.envSamples = 0, !.noteId = 0]
         ELSE [v EXCEPT !.envSamples = @ + 1]
    [] OTHER -> v

\* The switch of process(): the stage after the call and its counter.
EnvStep(v) ==
  CASE v.state = "attack" ->
         IF v.envSamples >= v.attackSamples
         THEN [v EXCEPT !.state = "decay", !.envSamples = 0]
         ELSE [v EXCEPT !.envSamples = @ + 1]
    [] v.state = "decay" ->
         IF v.envSamples >= v.decaySamples
         THEN [v EXCEPT !.state = "sustain", !.envSamples = 0]
         ELSE [v EXCEPT !.envSamples = @ + 1]
    [] v.state = "release" ->
         IF v.envSamples >= v.releaseSamples
         THEN [v EXCEPT !.state = "idle", !.envSamples = 0, !.noteId = 0]
         ELSE [v EXCEPT !.envSamples = @ + 1]
    [] OTHER -> v

\* Whether this process() call leaves through one of its two "return 0".
ReturnsEarly(v) ==
  \/ v.state = "idle"
  \/ v.state = "release" /\ v.envSamples >= v.releaseSamples

\* sample * norm * envAmp of a call that reaches the oscillator (in 1/Scale).
VoiceSample(v) ==
  LET phase == (((v.samples * v.freq) % SampleRate) * PhaseRes) \div SampleRate
      sample == Quot(oscSample(v.waveform, phase) * NormGain(v.waveform), Scale)
      a == EnvAmp(v)
  IN  Quot(sample * a[1], a[2])

\* this._samples++.  The counter is kept modulo SampleRate: process() reads it
\* only in frac(samples * freq / sr), which for a whole freq depends on that
\* residue alone, so the voice sounds the same and the model stays finite.
NextSamples(v) == (v.samples + 1) % SampleRate

\* The value process() returns.
ProcessReturn(v) == IF ReturnsEarly(v) THEN 0 ELSE VoiceSample(v)

\* The voice after process().
PolyVoice_process(v) ==
  LET w == EnvStep(v)
      calls == IF v.offCalls >= 0 /\ v.state = "release" THEN v.offCalls + 1 ELSE -1
      since == CASE v.state \in {"attack", "decay"} -> v.onCalls + 1
                 [] v.state = "sustain" -> v.onCalls
                 [] OTHER -> -1
      forced == IF v.forcedCalls >= 0 /\ v.state = "release"
                THEN v.forcedCalls + 1 ELSE -1
  IN  IF ReturnsEarly(v)
      THEN [w EXCEPT !.amp = EnvAmp(v), !.offCalls = calls, !.claimed = "",
                     !.onCalls = since, !.forcedCalls = forced]
      ELSE [w EXCEPT !.amp = EnvAmp(v), !.samples = NextSamples(v),
                     !.offCalls = calls,
                     !.claimed = "",
                     !.onCalls = since, !.forcedCalls = forced]

(* ------------------------------ processor ------------------------------ *)

DEFAULT_ENV == [attack |-> 1, decay |-> 10, sustain |-> 70, release |-> 50]

\* "Default polyphony: 16"
DefaultPolyphony == 16

\* A partial envelope: each field is <<>> (absent) or <<value>>.
NoEnvelope == [attack |-> <<>>, decay |-> <<>>, sustain |-> <<>>, release |-> <<>>]

\* x ?? d
Coalesce(x, d) == IF Len(x) = 0 THEN d ELSE x[1]

\* The field-by-field merge of a partial envelope onto the base envelope.
\* A merge onto the default envelope instead of the base envelope.
MergeEnvelope_OntoDefault(p, base) ==
  [attack |-> Coalesce(p.attack, DEFAULT_ENV.attack),
   decay |-> Coalesce(p.decay, DEFAULT_ENV.decay),
   sustain |-> Coalesce(p.sustain, DEFAULT_ENV.sustain),
   release |-> Coalesce(p.release, DEFAULT_ENV.release)]

MergeEnvelope(p, base) ==
  [attack |-> Coalesce(p.attack, base.attack),
   decay |-> Coalesce(p.decay, base.decay),
   sustain |-> Coalesce(p.sustain, base.sustain),
   release |-> Coalesce(p.release, base.release)]

VARIABLES
  voices,        \* PitchSynthProcessor.voices, a sequence of voice records
  baseEnvelope,  \* PitchSynthProcessor.baseEnvelope
  waveform,      \* PitchSynthProcessor.waveform
  frameCount,    \* frames of the render block being processed, 0 outside a block
  frame,         \* the loop index i of process(): the next frame to render
  outSample,     \* the sample last written to the output channels (in 1/Scale)
  port,          \* node.port: the messages posted and not yet delivered, oldest first
  sent,          \* history: every message Synth has posted, in order
  log,           \* history: every message onmessage has been called with, in order
  thrown         \* "" or the place of the last uncaught exception: "onmessage", "process"

vars ==
  <<voices, baseEnvelope, waveform, frameCount, frame, outSample, port, sent, log, thrown>>

Indices(vs) == 1..Len(vs)

SoundingCount(vs) == Cardinality({i \in Indices(vs) : vs[i].state # "idle"})

\* this.voices.find((v) => v.state === 'idle'), looking from index i on: the
\* index of the first idle voice, 0 for undefined.
RECURSIVE FindIdle(_, _)
FindIdle(vs, i) ==
  IF i > Len(vs) THEN 0
  ELSE IF vs[i].state = "idle" THEN i
  ELSE FindIdle(vs, i + 1)

\* A findFreeOrSteal that steals the last voice of the pool.
findFreeOrSteal_StealsLast(vs) ==
  LET free == FindIdle(vs, 1) IN IF free # 0 THEN free ELSE Len(vs)

\* The index (from 1) of the voice findFreeOrSteal returns.
findFreeOrSteal(vs) ==
  LET free == FindIdle(vs, 1) IN IF free # 0 THEN free ELSE 1

\* A resize that builds the whole pool anew.
resizeVoices_Recreates(vs, n, w) ==
  IF n = Len(vs) THEN vs
  ELSE [i \in 1..n |-> PolyVoice_setWaveform(NewVoice, w)]

\* Growing pushes new voices; shrinking calls forceRelease() on the voices
\* from index n on and sets voices.length = n in the same call, which drops
\* them; then every voice left is given the engine's waveform.
resizeVoices(vs, n, w) ==
  IF n = Len(vs) THEN vs
  ELSE LET resized ==
             IF n > Len(vs)
             THEN vs \o [i \in 1..(n - Len(vs)) |-> NewVoice]
             ELSE SubSeq([i \in Indices(vs) |->
                            IF i > n THEN PolyVoice_forceRelease(vs[i]) ELSE vs[i]],
                         1, n)
       IN  [i \in 1..n |-> PolyVoice_setWaveform(resized[i], w)]

\* A handler that could run between two passes of process()'s loop.
HandlerRuns_MidBlock == TRUE

\* The worklet's message handler and process() run as tasks of one event
\* loop, each to completion: a handler runs only when no block is in progress.
HandlerRuns == frameCount = 0

Init ==
  /\ voices = resizeVoices(<<>>, DefaultPolyphony, "sine")
  /\ baseEnvelope = DEFAULT_ENV
  /\ waveform = "sine"
  /\ frameCount = 0
  /\ frame = 0
  /\ outSample = 0
  /\ port = <<>>
  /\ sent = <<>>
  /\ log = <<>>
  /\ thrown = ""

\* A noteOn that claims again the voice that already sounds the id, if any.
NoteOn_Deduplicates(id, freq, envelope) ==
  /\ HandlerRuns
  /\ LET env == MergeEnvelope(envelope, baseEnvelope)
         owners == {i \in Indices(voices) :
                      voices[i].state # "idle" /\ voices[i].noteId = id}
         k == IF owners # {} THEN CHOOSE i \in owners : \A j \in owners : i <= j
              ELSE findFreeOrSteal(voices)
     IN  /\ voices' = [voices EXCEPT ![k] =
                         PolyVoice_noteOn(PolyVoice_setWaveform(@, waveform), freq, id, env)]
  /\ UNCHANGED <<baseEnvelope, waveform, frameCount, frame, outSample>>

NoteOn(id, freq, envelope) ==
  /\ HandlerRuns
  /\ LET env == MergeEnvelope(envelope, baseEnvelope)
         k == findFreeOrSteal(voices)
     IN  /\ voices' = [voices EXCEPT ![k] =
                         PolyVoice_noteOn(PolyVoice_setWaveform(@, waveform), freq, id, env)]
  /\ UNCHANGED <<baseEnvelope, waveform, frameCount, frame, outSample>>

NoteOff(id) ==
  /\ HandlerRuns
  /\ voices' = [i \in Indices(voices) |-> PolyVoice_noteOff(voices[i], id)]
  /\ UNCHANGED <<baseEnvelope, waveform, frameCount, frame, outSample>>

SetWaveform(w) ==
  /\ HandlerRuns
  /\ waveform' = w
  /\ voices' = [i \in Indices(voices) |-> PolyVoice_setWaveform(voices[i], w)]
  /\ UNCHANGED <<baseEnvelope, frameCount, frame, outSample>>

\* A setEnvelope that also retunes the voices to the new sustain level.
SetEnvelope_Retunes(p) ==
  /\ HandlerRuns
  /\ baseEnvelope' = MergeEnvelope(p, baseEnvelope)
  /\ voices' = [i \in Indices(voices) |->
                  [voices[i] EXCEPT !.sustainLevel = baseEnvelope'.sustain]]
  /\ UNCHANGED <<waveform, frameCount, frame, outSample>>

SetEnvelope(p) ==
  /\ HandlerRuns
  /\ baseEnvelope' = MergeEnvelope(p, baseEnvelope)
  /\ UNCHANGED <<voices, waveform, frameCount, frame, outSample>>

AllNotesOff ==
  /\ HandlerRuns
  /\ voices' = [i \in Indices(voices) |-> PolyVoice_forceRelease(voices[i])]
  /\ UNCHANGED <<baseEnvelope, waveform, frameCount, frame, outSample>>

\* A setPolyphony that resizes to the number it is given.
SetPolyphony_NoFloor(n) ==
  /\ HandlerRuns
  /\ voices' = resizeVoices(voices, n, waveform)
  /\ UNCHANGED <<baseEnvelope, waveform, frameCount, frame, outSample>>

\* msg.data.voices is a whole number here, so Math.floor leaves it as it is.
SetPolyphony(n) ==
  /\ HandlerRuns
  /\ voices' = resizeVoices(voices, Max(1, n), waveform)
  /\ UNCHANGED <<baseEnvelope, waveform, frameCount, frame, outSample>>

\* A process() that renders a frame although it was given none to fill.
ProcessEmpty_Renders(channels, frames) ==
  /\ frameCount = 0
  /\ channels = 0 \/ frames = 0
  /\ voices' = [i \in Indices(voices) |-> PolyVoice_process(voices[i])]
  /\ UNCHANGED <<baseEnvelope, waveform, frameCount, frame, outSample>>

\* process() given no output channel or no frame: it returns true at once.
ProcessEmpty(channels, frames) ==
  /\ frameCount = 0
  /\ channels = 0 \/ frames = 0
  /\ UNCHANGED <<voices, baseEnvelope, waveform, frameCount, frame, outSample>>

\* A mix written without the headroom factor.
Headroom_None(mix, gain) == Quot(mix * gain, Scale)

\* mix * gain * (1.0 / AVG_EXPECTED_SIMULTANEOUS_VOICES), all in 1/Scale.
Headroom(mix, gain) == Quot(Quot(mix * gain, Scale), AVG_EXPECTED_SIMULTANEOUS_VOICES)

\* The loop over v of process(), from index v on: what the calls of the
\* voices' process() add to mix.
RECURSIVE Sum(_, _)
Sum(vs, v) == IF v > Len(vs) THEN 0 ELSE ProcessReturn(vs[v]) + Sum(vs, v + 1)

\* One pass of the loop over i in a block of fc frames: every voice's
\* process(), the mix, the write of the same sample to every channel; after the
\* last frame process() returns true.
RenderFrame(fc, gain) ==
  /\ \E mix \in {Sum(voices, 1)} : outSample' = Headroom(mix, gain)
  /\ voices' = [i \in Indices(voices) |-> PolyVoice_process(voices[i])]
  /\ IF frame + 1 < fc
     THEN frame' = frame + 1 /\ frameCount' = fc
     ELSE frame' = 0 /\ frameCount' = 0
  /\ UNCHANGED <<baseEnvelope, waveform>>

\* process() called with at least one channel and frames >= 1 frames: its
\* entry checks and the pass for i = 0.
ProcessStart(frames, gain) ==
  /\ frameCount = 0
  /\ frames >= 1
  /\ RenderFrame(frames, gain)

\* The pass for the next i of the block in progress.
ProcessNext(gain) ==
  /\ frameCount > 0
  /\ RenderFrame(frameCount, gain)

(* ------------------------------- inputs -------------------------------- *)

Ids == {1, 2}

Freqs == {1}

Waveforms == {"sine", "triangle"}

Volumes == {1000}

\* Envelope overrides of a noteOn: none, and one of two fields.
Overrides ==
  {NoEnvelope,
   [NoEnvelope EXCEPT !.sustain = <<70>>, !.release = <<50>>]}

\* Partial envelopes of a setEnvelope: a zero sustain and a shorter release.
Partials == {[NoEnvelope EXCEPT !.release = <<25>>, !.sustain = <<0>>]}

Polyphonies == {-1, 0, 1, 2}

\* A step of the processor on an input handed to it directly: nothing is
\* posted to the port or taken from it and nothing is thrown.
Direct == UNCHANGED <<port, sent, log, thrown>>

\* The bound on the notes started on the pool of the default size.
MayStart == Len(voices) < DefaultPolyphony \/ SoundingCount(voices) < MaxSounding

Next ==
  \/ \E id \in Ids, f \in Freqs, e \in Overrides : MayStart /\ NoteOn(id, f, e) /\ Direct
  \/ \E id \in Ids : NoteOff(id) /\ Direct
  \/ \E w \in Waveforms : SetWaveform(w) /\ Direct
  \/ \E p \in Partials : SetEnvelope(p) /\ Direct
  \/ AllNotesOff /\ Direct
  \/ \E n \in Polyphonies : SetPolyphony(n) /\ Direct
  \/ \E c \in 0..1, n \in 0..MaxFrames : ProcessEmpty(c, n) /\ Direct
  \/ \E n \in 1..MaxFrames, g \in Volumes : ProcessStart(n, g) /\ Direct
  \/ \E g \in Volumes : ProcessNext(g) /\ Direct

Spec == Init /\ [][Next]_vars

(* -------------------------------- chords ------------------------------- *)

\* The mix is studied on chords: notes started together on the default pool
\* of 16 voices, with sustain = 1.0 so that every voice comes to amplitude 1,
\* all on one waveform and one frequency, rendered in blocks of one frame.
MixEnvelope == [NoEnvelope EXCEPT !.sustain = <<100>>]

\* The waveforms whose normalization gain is at most 1.
MixWaveforms == {"sine", "triangle", "square"}

\* parameters.volume: minValue 0, defaultValue 0.8, maxValue 1.
MixVolumes == {0, 800, 1000}

\* Every note of the chord starts before the first frame is rendered.
ChordOpen ==
  \A i \in Indices(voices) :
    voices[i].state = "idle" \/ (voices[i].state = "attack" /\ voices[i].envSamples = 0)

NextMix ==
  \/ \E f \in Freqs : ChordOpen /\ NoteOn(1, f, MixEnvelope) /\ Direct
  \/ \E w \in MixWaveforms : SetWaveform(w) /\ Direct
  \/ \E g \in MixVolumes : ProcessStart(1, g) /\ Direct

SpecMix == Init /\ [][NextMix]_vars

(* --------------------------------- port -------------------------------- *)

\* A PitchSynthMessage, its data laid out flat; a field a message type does
\* not carry holds the value given here.
NoMessage ==
  [type |-> "", id |-> 0, freq |-> 0, envelope |-> NoEnvelope, waveform |-> "",
   voices |-> 0]

\* The messages Synth's methods build.
Synth_noteOn(id, freq, envelope) ==
  [NoMessage EXCEPT !.type = "noteOn", !.id = id, !.freq = freq, !.envelope = envelope]

Synth_noteOff(id) == [NoMessage EXCEPT !.type = "noteOff", !.id = id]

Synth_setWaveform(w) == [NoMessage EXCEPT !.type = "waveform", !.waveform = w]

Synth_setEnvelope(env) == [NoMessage EXCEPT !.type = "setEnvelope", !.envelope = env]

\* The switch of onmessage; it has no default case.
onmessage(msg) ==
  \/ msg.type = "noteOn" /\ NoteOn(msg.id, msg.freq, msg.envelope)
  \/ msg.type = "noteOff" /\ NoteOff(msg.id)
  \/ msg.type = "waveform" /\ SetWaveform(msg.waveform)
  \/ msg.type = "setEnvelope" /\ SetEnvelope(msg.envelope)
  \/ msg.type = "allNotesOff" /\ AllNotesOff
  \/ msg.type = "setPolyphony" /\ SetPolyphony(msg.voices)
  \/ /\ msg.type \notin {"noteOn", "noteOff", "waveform", "setEnvelope", "allNotesOff",
                          "setPolyphony"}
     /\ HandlerRuns
     /\ UNCHANGED <<voices, baseEnvelope, waveform, frameCount, frame, outSample>>

\* A port that hands over the message posted last.
Oldest_Newest(q) == q[Len(q)]

\* The message a port delivers next: the one posted first.
Oldest(q) == Head(q)

\* this.node.port.postMessage(msg), from the control context: at any time, a
\* render block in progress or not.  At most MaxPosts messages are posted.
Post(msg) ==
  /\ Len(sent) < MaxPosts
  /\ port' = Append(port, msg)
  /\ sent' = Append(sent, msg)
  /\ UNCHANGED <<voices, baseEnvelope, waveform, frameCount, frame, outSample, log, thrown>>

\* The port's message event: onmessage is called with the oldest message.
Deliver ==
  /\ port # <<>>
  /\ onmessage(Oldest(port))
  /\ port' = Tail(port)
  /\ log' = Append(log, Oldest(port))
  /\ UNCHANGED <<sent, thrown>>

\* What is posted: by Synth, a note with the full envelope its caller passes,
\* its noteOff, a waveform and a partial envelope; and, on the same port, the
\* two messages Synth has no method for and a message of a type the switch
\* does not know.
PortMessages ==
  {Synth_noteOn(1, 1, [attack |-> <<1>>, decay |-> <<10>>, sustain |-> <<70>>,
                       release |-> <<50>>]),
   Synth_noteOff(1),
   Synth_setWaveform("triangle"),
   Synth_setEnvelope([NoEnvelope EXCEPT !.sustain = <<0>>]),
   [NoMessage EXCEPT !.type = "allNotesOff"],
   [NoMessage EXCEPT !.type = "setPolyphony", !.voices = 1],
   [NoMessage EXCEPT !.type = "ping"]}

NextPort ==
  \/ \E msg \in PortMessages : Post(msg)
  \/ Deliver
  \/ \E n \in 1..MaxFrames, g \in Volumes : ProcessStart(n, g) /\ Direct
  \/ \E g \in Volumes : ProcessNext(g) /\ Direct

SpecPort == Init /\ [][NextPort]_vars

(* -------------------------------- faults ------------------------------- *)

\* The value undefined where a waveform tag is expected.
Undefined == "undefined"

MessageTypes ==
  {"noteOn", "noteOff", "waveform", "setEnvelope", "allNotesOff", "setPolyphony"}

\* onmessage called with a message of a known type that has no data field.
\* noteOn, setEnvelope and setPolyphony read a property of msg.data and noteOff
\* destructures it: each throws a TypeError before it writes anything.
\* waveform stores msg.data, undefined, as the engine's and every voice's
\* waveform.  allNotesOff does not read msg.data.
onmessageNoData(type) ==
  \/ /\ type \in {"noteOn", "noteOff", "setEnvelope", "setPolyphony"}
     /\ HandlerRuns
     /\ thrown' = "onmessage"
     /\ UNCHANGED <<voices, baseEnvelope, waveform, frameCount, frame, outSample>>
  \/ type = "waveform" /\ SetWaveform(Undefined) /\ UNCHANGED thrown
  \/ type = "allNotesOff" /\ AllNotesOff /\ UNCHANGED thrown

\* A process() that throws only after it has rendered the first frame.
ProcessMismatch_AfterFrame(lengths) ==
  /\ frameCount = 0
  /\ Len(lengths) >= 1
  /\ \E ch \in 2..Len(lengths) : lengths[ch] # lengths[1]
  /\ voices' = [i \in Indices(voices) |-> PolyVoice_process(voices[i])]
  /\ thrown' = "process"
  /\ UNCHANGED <<baseEnvelope, waveform, frameCount, frame, outSample>>

\* process() given output channels of the lengths listed, one of them not
\* the length of channel 0: it throws from the check before the loop over i.
ProcessMismatch(lengths) ==
  /\ frameCount = 0
  /\ Len(lengths) >= 1
  /\ \E ch \in 2..Len(lengths) : lengths[ch] # lengths[1]
  /\ thrown' = "process"
  /\ UNCHANGED <<voices, baseEnvelope, waveform, frameCount, frame, outSample>>

\* A processor whose process() has thrown is not called again.
Alive == thrown # "process"

\* Waveform messages of the fault scenario: a known tag and a tag outside
\* KNOWN_WAVEFORMS.
FaultWaveforms == {"sine", "organ"}

UnknownTypes == {"ping"}

ChannelLengths == {<<1, 2>>, <<2, 1>>, <<0, 1>>, <<1, 1, 0>>}

NextFault ==
  \/ \E f \in Freqs : Alive /\ MayStart /\ NoteOn(1, f, NoEnvelope) /\ Direct
  \/ Alive /\ NoteOff(1) /\ Direct
  \/ \E w \in FaultWaveforms : Alive /\ SetWaveform(w) /\ Direct
  \/ \E t \in UnknownTypes : Alive /\ onmessage([NoMessage EXCEPT !.type = t]) /\ Direct
  \/ \E t \in MessageTypes : Alive /\ onmessageNoData(t) /\ UNCHANGED <<port, sent, log>>
  \/ \E lengths \in ChannelLengths :
       Alive /\ ProcessMismatch(lengths) /\ UNCHANGED <<port, sent, log>>
  \/ \E n \in 1..MaxFrames, g \in Volumes : Alive /\ ProcessStart(n, g) /\ Direct
  \/ \E g \in Volumes : Alive /\ ProcessNext(g) /\ Direct

SpecFault == Init /\ [][NextFault]_vars

(* ----------------------------- normalisation --------------------------- *)

\* The loop of computeWaveformRMS from index i on, run over the samples as
\* process() scales them: oscSample(w, phase) * norm.
RECURSIVE SumScaledSquares(_, _, _, _, _)
SumScaledSquares(w, norm, pointsPerCycle, totalPoints, i) ==
  IF i >= totalPoints THEN 0
  ELSE LET phase == ((i * PhaseRes) \div pointsPerCycle) % PhaseRes
           s == Quot(oscSample(w, phase) * norm, Scale)
       IN  s * s + SumScaledSquares(w, norm, pointsPerCycle, totalPoints, i + 1)

\* The RMS, by the sampling of computeWaveformRMS, of waveform w scaled by norm.
ScaledRMS(w, norm) ==
  LET totalPoints == Max(1, RMS_SAMPLE_POINTS) * Max(1, RMS_NUM_CYCLES)
  IN  Isqrt(SumScaledSquares(w, norm, RMS_SAMPLE_POINTS, totalPoints, 0) \div totalPoints)

\* For every known waveform, its RMS by the sampling the table is built from.
WaveformRMS ==
  [w \in KNOWN_WAVEFORMS |-> computeWaveformRMS(w, RMS_SAMPLE_POINTS, RMS_NUM_CYCLES)]

\* For every known waveform, the RMS of the waveform as process() scales it.
NormalizedRMS == [w \in KNOWN_WAVEFORMS |-> ScaledRMS(w, NormGain(w))]

\* The table is studied on one note played on each known waveform in turn.
NextGain ==
  \/ \E w \in KNOWN_WAVEFORMS : SetWaveform(w) /\ Direct
  \/ \E f \in Freqs : MayStart /\ NoteOn(1, f, NoEnvelope) /\ Direct
  \/ NoteOff(1) /\ Direct
  \/ \E n \in 1..MaxFrames, g \in Volumes : ProcessStart(n, g) /\ Direct
  \/ \E g \in Volumes : ProcessNext(g) /\ Direct

SpecGain == Init /\ [][NextGain]_vars

(* ------------------------------- envelopes ----------------------------- *)

\* The envelope is studied on one note at a time, started with a full envelope
\* out of these values: stage times that are negative, zero, shorter than a
\* sample and a few samples long, and sustain levels below, in and above [0, 1].
EnvAttacks == {-5, 0, 50, 75}

EnvDecays == {0, 50}

EnvSustains == {-10, 0, 70, 150}

EnvReleases == {-5, 50}

EnvOverrides ==
  {[attack |-> <<a>>, decay |-> <<d>>, sustain |-> <<s>>, release |-> <<r>>] :
     a \in EnvAttacks, d \in EnvDecays, s \in EnvSustains, r \in EnvReleases}

\* The pool can be cut to one voice, which every later noteOn then claims.
EnvPolyphonies == {1}

\* Notes are played one at a time: a note starts when no voice sounds, or
\* when the pool has been cut and the one voice left is claimed again.
EnvMayStart == Len(voices) < DefaultPolyphony \/ SoundingCount(voices) = 0

NextEnv ==
  \/ \E f \in Freqs, e \in EnvOverrides : EnvMayStart /\ NoteOn(1, f, e) /\ Direct
  \/ NoteOff(1) /\ Direct
  \/ AllNotesOff /\ Direct
  \/ \E n \in EnvPolyphonies : SetPolyphony(n) /\ Direct
  \/ \E n \in 1..MaxFrames, g \in Volumes : ProcessStart(n, g) /\ Direct
  \/ \E g \in Volumes : ProcessNext(g) /\ Direct

SpecEnv == Init /\ [][NextEnv]_vars

(* ------------------------------ properties ----------------------------- *)

\* The steps that are one pass of process()'s loop.
RenderStep ==
  \/ \E n \in 1..MaxFrames, g \in Volumes : ProcessStart(n, g)
  \/ \E g \in Volumes : ProcessNext(g)

\* The indices of the voices that are in the pool before and after a step.
Kept == 1..Min(Len(voices), Len(voices'))

\* C1: in every reachable state a voice of the pool is idle if and only if its
\* noteId is 0.
C1_IdleIffUnowned ==
  \A i \in Indices(voices) : voices[i].state = "idle" <=> voices[i].noteId = 0

\* C1 witness: one voice has sounded and fallen idle again (it still holds the
\* stage lengths of its note) while another voice sounds under an id > 0.
C1_Witness ==
  \E i, j \in Indices(voices) :
    /\ voices[i].state = "idle" /\ voices[i].releaseSamples > 0 /\ voices[i].noteId = 0
    /\ voices[j].state # "idle" /\ voices[j].noteId > 0

\* Voice i, released by a noteOff that no other message has overridden, has its
\* process() called in the step: the count of its calls since the noteOff grows.
Processed(i) == voices'[i].offCalls = voices[i].offCalls + 1

\* C2 (as stated): a voice that noteOff(id) moved to release, and that no
\* other message touched since, becomes idle on exactly the releaseSamples-th
\* process() call after the noteOff; that call returns 0 and clears noteId.
C2_IdleOnReleaseSamplesCall ==
  [][\A i \in Kept :
       (voices[i].state = "release" /\ voices[i].offCalls >= 0 /\ Processed(i)) =>
         /\ voices'[i].state = "idle" <=> voices[i].offCalls + 1 = voices[i].releaseSamples
         /\ voices'[i].state = "idle" =>
              voices'[i].noteId = 0 /\ ProcessReturn(voices[i]) = 0]_vars

\* C2 (amended): such a voice becomes idle on exactly the
\* (releaseSamples + 1)-th process() call after the noteOff, not one call
\* earlier or later; that call returns 0 and clears noteId.
C2_IdleOnCallAfterReleaseSamples ==
  [][\A i \in Kept :
       (voices[i].state = "release" /\ voices[i].offCalls >= 0 /\ Processed(i)) =>
         /\ voices'[i].state = "idle" <=>
              voices[i].offCalls + 1 = voices[i].releaseSamples + 1
         /\ voices'[i].state = "idle" =>
              voices'[i].noteId = 0 /\ ProcessReturn(voices[i]) = 0]_vars

\* C2 witness: a voice released by noteOff has just fallen idle, on its
\* (releaseSamples + 1)-th process() call, with noteId cleared.
C2_Witness ==
  \E i \in Indices(voices) :
    /\ voices[i].state = "idle" /\ voices[i].noteId = 0
    /\ voices[i].releaseSamples = 2
    /\ voices[i].offCalls = voices[i].releaseSamples + 1

\* C3 (as stated): a voice that setPolyphony drops from the pool has been
\* rendered to the end of its release: it is idle when it is dropped.
C3_DroppedAfterRelease ==
  [][\A i \in Indices(voices) : i > Len(voices') => voices[i].state = "idle"]_vars

\* C5 (as stated): the first process() call after noteOff or allNotesOff put a
\* voice into release, the voice's amplitude having been > 0 on its call
\* before, computes an amplitude that is not 0 and leaves the voice not idle.
C5_NoAbruptZero ==
  [][\A i \in Kept :
       ( /\ voices[i].state = "release" /\ voices[i].envSamples = 0
         /\ voices[i].amp[1] > 0
         /\ RenderStep ) =>
         voices'[i].amp[1] # 0 /\ voices'[i].state # "idle"]_vars

\* A step in which some voice of the pool is claimed by a note and changes: every
\* noteOn step that is not a stuttering step is one.
ClaimStep ==
  /\ Len(voices') = Len(voices)
  /\ \E i \in Indices(voices) : voices'[i].claimed # "" /\ voices'[i] # voices[i]

\* C6: a noteOn claims the lowest-index idle voice if there is one and the
\* first voice of the pool otherwise; it puts that voice into attack under the
\* note's id and leaves every other voice and the pool size as they were.
C6_NoteOnAllocates ==
  [][ClaimStep => \A id \in Ids, f \in Freqs, e \in Overrides :
       NoteOn(id, f, e) =>
         LET idle == {i \in Indices(voices) : voices[i].state = "idle"}
             k == IF idle # {} THEN CHOOSE i \in idle : \A j \in idle : i <= j ELSE 1
         IN  /\ Len(voices') = Len(voices)
             /\ voices'[k].state = "attack" /\ voices'[k].noteId = id
             /\ \A i \in Indices(voices) \ {k} : voices'[i] = voices[i]
             /\ SoundingCount(voices') <= Len(voices)]_vars

\* C6 witness: with a pool of two sounding voices, a noteOn has just taken
\* over the first voice while it was sounding.
C6_Witness ==
  /\ Len(voices) = 2
  /\ voices[1].claimed \in {"attack", "decay", "sustain", "release"}
  /\ voices[1].state = "attack" /\ voices[1].envSamples = 0
  /\ voices[2].state # "idle"

\* C7: a voice of the pool passes from a sounding state to idle only in a
\* process() call made in release with the stage counter at releaseSamples or
\* more; that call resets the counter, sets noteId to 0 and returns 0.  No
\* message handler makes that passage.
C7_IdleOnlyByReleaseEnd ==
  [][\A i \in Kept :
       (voices[i].state # "idle" /\ voices'[i].state = "idle") =>
         /\ RenderStep
         /\ voices[i].state = "release"
         /\ voices[i].envSamples >= voices[i].releaseSamples
         /\ voices'[i].envSamples = 0 /\ voices'[i].noteId = 0
         /\ ProcessReturn(voices[i]) = 0]_vars

\* C7 witness: a voice that allNotesOff (or a noteOn stealing it, never a
\* noteOff) last touched has reached idle, counter at 0 and noteId at 0,
\* while a block is being rendered.
C7_Witness ==
  \E i \in Indices(voices) :
    /\ voices[i].state = "idle" /\ voices[i].releaseSamples > 0
    /\ voices[i].offCalls = -1
    /\ voices[i].envSamples = 0 /\ voices[i].noteId = 0
    /\ frameCount > 0

\* C8: a noteOff(id) received while no voice has noteId = id leaves every voice
\* (state, counters, noteId, stage lengths, waveform), the pool size, the base
\* envelope and the engine's waveform unchanged.
C8_UnownedNoteOffNoOp ==
  [][\A id \in Ids :
       (NoteOff(id) /\ \A i \in Indices(voices) : voices[i].noteId # id) =>
         UNCHANGED <<voices, baseEnvelope, waveform>>]_vars

\* C8 witness: a handler may run, one voice holds note 1 in sustain and no
\* voice holds note 2: noteOff(2) finds no owner, and the state it leaves is
\* this same state.
C8_Witness ==
  /\ HandlerRuns
  /\ \E i \in Indices(voices) : voices[i].noteId = 1 /\ voices[i].state = "sustain"
  /\ \A i \in Indices(voices) : voices[i].noteId # 2

\* C9: noteOff(id) moves a voice to release with the stage counter at 0 when
\* the voice has noteId = id and is in attack, decay or sustain, and leaves
\* every other voice as it was, a voice in release with that id included.
C9_NoteOffOnlyOwnerSounding ==
  [][\A id \in Ids :
       NoteOff(id) =>
         /\ Len(voices') = Len(voices)
         /\ \A i \in Indices(voices) :
              IF voices[i].noteId = id /\ voices[i].state \in {"attack", "decay", "sustain"}
              THEN voices'[i] = [voices[i] EXCEPT !.state = "release",
                                                  !.envSamples = 0,
                                                  !.offCalls = 0]
              ELSE voices'[i] = voices[i]]_vars

\* C9 witness: a voice that noteOff released is part-way through its release
\* (calls counted since that noteOff, counter past 0) while a handler may run:
\* a second noteOff of its id reaches it there.
C9_Witness ==
  /\ HandlerRuns
  /\ \E i \in Indices(voices) :
       /\ voices[i].state = "release" /\ voices[i].envSamples >= 1
       /\ voices[i].offCalls = voices[i].envSamples

AllAtFullAmp ==
  \A i \in Indices(voices) :
    /\ voices[i].state \in {"decay", "sustain"}
    /\ voices[i].amp[1] > 0 /\ voices[i].amp[1] = voices[i].amp[2]

\* C4 (as stated): when every voice of the pool of 16 sounded at amplitude 1,
\* on one waveform and frequency and with a volume in [0, 1], the sample
\* written has absolute value at most 1.0.
C4_FullPoolWithinUnit ==
  (Len(voices) = DefaultPolyphony /\ AllAtFullAmp) => Abs(outSample) <= Scale

\* C4 (amended): on sine, triangle or square and with a volume in [0, 1], the
\* sample a pass of the render loop writes has absolute value at most k / 6,
\* k the number of voices sounding before the pass; that is at most 1.0 only
\* while at most 6 voices sound.
C4_WithinSoundingOverSix ==
  [][(\E g \in MixVolumes : ProcessStart(1, g)) =>
       Abs(outSample') * AVG_EXPECTED_SIMULTANEOUS_VOICES
         <= SoundingCount(voices) * Scale]_vars

\* C4 witness: all 16 voices of the pool sounded at amplitude 1 in the frame
\* last rendered, and the sample written is beyond 1.0.
C4_Witness ==
  /\ Len(voices) = DefaultPolyphony /\ AllAtFullAmp
  /\ Abs(outSample) > Scale

C12_VoicesHaveEngineWaveform ==
  \A i \in Indices(voices) : voices[i].waveform = waveform

\* C12 witness: the engine's waveform is no longer the initial one; one voice
\* sounds on it, past its first sample, and another voice has never been used.
C12_Witness ==
  /\ waveform = "triangle"
  /\ \E i, j \in Indices(voices) :
       /\ voices[i].state # "idle" /\ voices[i].samples > 0
       /\ voices[i].waveform = "triangle"
       /\ voices[j].releaseSamples = 0 /\ voices[j].waveform = "triangle"

\* C13: a setEnvelope step changes the base envelope and nothing else: every
\* voice (state, counters, stage lengths, sustainLevel) and the engine's
\* waveform are as before, and the base envelope is the merge of the message
\* onto the old one, which the noteOn messages handled later read.
C13_SetEnvelopeOnlyBase ==
  [][\A p \in Partials :
       SetEnvelope(p) =>
         /\ voices' = voices /\ waveform' = waveform
         /\ baseEnvelope' =
              [attack |-> IF p.attack = <<>> THEN baseEnvelope.attack ELSE p.attack[1],
               decay |-> IF p.decay = <<>> THEN baseEnvelope.decay ELSE p.decay[1],
               sustain |-> IF p.sustain = <<>> THEN baseEnvelope.sustain ELSE p.sustain[1],
               release |-> IF p.release = <<>> THEN baseEnvelope.release ELSE p.release[1]]]_vars

\* C13 witness: a setEnvelope has set the base sustain to 0 and the base
\* release to 0.25 s while a voice holds its sustain stage at the level 0.7 and
\* with the release length it captured at its noteOn.
C13_Witness ==
  /\ HandlerRuns
  /\ baseEnvelope.sustain = 0 /\ baseEnvelope.release = 25
  /\ \E i \in Indices(voices) :
       /\ voices[i].state = "sustain" /\ voices[i].sustainLevel = 70
       /\ voices[i].releaseSamples = secondsToSamples(50, SampleRate)

\* C14: a noteOn leaves the voice it claims, whatever state that voice was in,
\* in attack with both counters at 0, the note's id and frequency, the stage
\* lengths and sustain level of the note's envelope and the engine's waveform:
\* every field is set anew.  No other voice changes.
C14_NoteOnResetsVoice ==
  [][ClaimStep => \A id \in Ids, f \in Freqs, e \in Overrides :
       NoteOn(id, f, e) =>
         LET env == MergeEnvelope(e, baseEnvelope) IN
         \E k \in Indices(voices) :
           /\ voices'[k] =
                [state |-> "attack", freq |-> f, samples |-> 0, envSamples |-> 0,
                 attackSamples |-> secondsToSamples(env.attack, SampleRate),
                 decaySamples |-> secondsToSamples(env.decay, SampleRate),
                 releaseSamples |-> secondsToSamples(env.release, SampleRate),
                 sustainLevel |-> clamp(env.sustain, 0, LevelRes),
                 noteId |-> id, waveform |-> waveform,
                 amp |-> <<0, 1>>, offCalls |-> -1, claimed |-> voices[k].state,
                 onCalls |-> 0, forcedCalls |-> -1]
           /\ \A i \in Indices(voices) \ {k} : voices'[i] = voices[i]]_vars

\* C14 witness: a noteOn has just claimed a voice that was in release, its
\* phase counter and stage counter past 0 in the note before.
C14_Witness ==
  \E i \in Indices(voices) :
    /\ voices[i].claimed = "release"
    /\ voices[i].state = "attack" /\ voices[i].envSamples = 0 /\ voices[i].samples = 0

\* C15: the voice a noteOn claims takes each of attack, decay, sustain and
\* release from the override when the override has the field and from the base
\* envelope otherwise; the noteOn leaves the base envelope as it was.
C15_NoteOnMergesOverride ==
  [][ClaimStep => \A id \in Ids, f \in Freqs, e \in Overrides :
       NoteOn(id, f, e) =>
         /\ baseEnvelope' = baseEnvelope
         /\ \E k \in Indices(voices) :
              /\ voices'[k].claimed # "" /\ voices'[k] # voices[k]
              /\ voices'[k].attackSamples =
                   secondsToSamples(IF e.attack = <<>> THEN baseEnvelope.attack
                                    ELSE e.attack[1], SampleRate)
              /\ voices'[k].decaySamples =
                   secondsToSamples(IF e.decay = <<>> THEN baseEnvelope.decay
                                    ELSE e.decay[1], SampleRate)
              /\ voices'[k].releaseSamples =
                   secondsToSamples(IF e.release = <<>> THEN baseEnvelope.release
                                    ELSE e.release[1], SampleRate)
              /\ voices'[k].sustainLevel =
                   clamp(IF e.sustain = <<>> THEN baseEnvelope.sustain ELSE e.sustain[1],
                         0, LevelRes)]_vars

\* C15 witness: with the base sustain at 0 and the base release at 0.25 s, a
\* noteOn whose override gives sustain 0.7 and release 0.5 s, and no attack or
\* decay, has just claimed a voice.
C15_Witness ==
  /\ baseEnvelope.sustain = 0 /\ baseEnvelope.release = 25
  /\ \E i \in Indices(voices) :
       /\ voices[i].claimed # "" /\ voices[i].state = "attack"
       /\ voices[i].sustainLevel = 70
       /\ voices[i].releaseSamples = secondsToSamples(50, SampleRate)
       /\ voices[i].attackSamples = secondsToSamples(baseEnvelope.attack, SampleRate)

\* C16 (as stated): a message of an unknown type, and a message of a known
\* type without its data, raise no error and leave every voice, the pool size,
\* the base envelope and the engine's waveform unchanged.
C16_BadMessageIgnored ==
  [][( \/ \E t \in UnknownTypes : onmessage([NoMessage EXCEPT !.type = t])
       \/ \E t \in {"noteOn", "setPolyphony"} : onmessageNoData(t) ) =>
       /\ thrown' = thrown
       /\ UNCHANGED <<voices, baseEnvelope, waveform>>]_vars

\* C17: a process() call whose output channels differ in length throws and
\* does nothing else: no voice's process() has been called and no sample
\* written, so the voices, the block position and the output are as before.
C17_MismatchThrowsFirst ==
  [][\A lengths \in ChannelLengths :
       ProcessMismatch(lengths) =>
         /\ thrown' = "process"
         /\ voices' = voices /\ outSample' = outSample
         /\ frameCount' = frameCount /\ frame' = frame
         /\ baseEnvelope' = baseEnvelope /\ waveform' = waveform]_vars

\* C17 witness: process() has thrown while a voice was in its decay, the
\* voice's phase counter past 0.
C17_Witness ==
  /\ thrown = "process"
  /\ \E i \in Indices(voices) : voices[i].state = "decay" /\ voices[i].samples > 0

\* C20 (as stated): a voice whose waveform is a tag outside the known set
\* returns from process() what the same voice would return with waveform sine.
C20_UnknownTagAsSine ==
  \A i \in Indices(voices) :
    voices[i].waveform \notin KNOWN_WAVEFORMS =>
      ProcessReturn(voices[i]) = ProcessReturn([voices[i] EXCEPT !.waveform = "sine"])

\* C18: a process() call given no output channel, or channels of no frame,
\* returns without throwing and changes nothing: no sample is written and no
\* voice's state, stage counter or phase counter moves.
C18_EmptyBlockNoOp ==
  [][\A c \in 0..1, n \in 0..MaxFrames :
       ProcessEmpty(c, n) =>
         /\ voices' = voices /\ outSample' = outSample
         /\ frameCount' = frameCount /\ frame' = frame
         /\ thrown' = thrown]_vars

\* C18 witness: no block is in progress and a voice is part-way through its
\* attack: an empty block handed to process() now would find a counter to move.
C18_Witness ==
  /\ frameCount = 0
  /\ \E i \in Indices(voices) :
       voices[i].state = "attack" /\ voices[i].envSamples > 0 /\ voices[i].samples > 0

\* C19: the pool holds 16 voices at the start and at least 1 voice after every
\* step; setPolyphony{n} leaves exactly n voices when n >= 1 and exactly 1 voice
\* when n is 0 or negative.  (A setPolyphony step that keeps the pool's size
\* changes nothing at all; the steps that change the size are looked at.)
C19_PoolNeverEmpty ==
  /\ Len(voices) = DefaultPolyphony
  /\ [][/\ Len(voices') >= 1
        /\ \A n \in Polyphonies :
             (Len(voices') # Len(voices) /\ SetPolyphony(n)) =>
               Len(voices') = (IF n >= 1 THEN n ELSE 1)]_vars

\* C19 witness: the pool has been shrunk to one voice, and that voice sounds.
C19_Witness ==
  /\ Len(voices) = 1
  /\ voices[1].state \in {"attack", "decay", "sustain"}
  /\ frameCount = 0

\* C21: the gain process() reads for a voice's waveform is the table's entry,
\* RMS(triangle) / RMS(w) by the sampling of 50 points over 1 cycle (1 if RMS(w)
\* is 0); and for every known waveform the RMS of the samples scaled by the gain
\* is the RMS of triangle to within 1e-3, one unit of 1/Scale.
C21_GainEqualisesRMS ==
  LET rms(w) == WaveformRMS[w]
      reference == WaveformRMS["triangle"]
  IN  /\ DOMAIN NORMALIZATION_GAIN = KNOWN_WAVEFORMS
      /\ \A w \in KNOWN_WAVEFORMS : Abs(NormalizedRMS[w] - reference) <= 1
      /\ \A i \in Indices(voices) :
            LET w == voices[i].waveform IN
            /\ w \in KNOWN_WAVEFORMS
            /\ NormGain(w) = IF rms(w) > 0 THEN (reference * Scale) \div rms(w) ELSE Scale

\* C21 witness: a block is being rendered with a voice sounding, past its first
\* sample, on a waveform whose gain is not 1, and the sample written is not 0.
C21_Witness ==
  /\ frameCount > 0 /\ outSample # 0
  /\ \E i \in Indices(voices) :
       /\ voices[i].state = "sustain" /\ voices[i].samples > 0
       /\ voices[i].waveform = "selfmod0.3"
       /\ NormGain(voices[i].waveform) # Scale

\* C22: a voice followed from its noteOn, no message having changed its stage,
\* leaves attack for decay on the process() call that finds the stage counter
\* at attackSamples, which is call attackSamples + 1 since the noteOn (within
\* one call of attackSamples), and leaves decay for sustain decaySamples + 1
\* calls later (within one call of decaySamples); each passage resets the stage
\* counter to 0.
C22_StageLengths ==
  [][\A i \in Kept :
       (voices[i].onCalls >= 0 /\ voices'[i].onCalls = voices[i].onCalls + 1) =>
         LET v == voices[i]
             calls == voices'[i].onCalls
         IN  /\ v.state = "attack" =>
                  /\ voices'[i].state = "decay" <=> v.envSamples = v.attackSamples
                  /\ voices'[i].state = "decay" =>
                       /\ voices'[i].envSamples = 0
                       /\ calls = v.attackSamples + 1
                       /\ Abs(calls - v.attackSamples) <= 1
                  /\ voices'[i].state \in {"attack", "decay"}
             /\ v.state = "decay" =>
                  /\ voices'[i].state = "sustain" <=> v.envSamples = v.decaySamples
                  /\ voices'[i].state = "sustain" =>
                       /\ voices'[i].envSamples = 0
                       /\ calls - (v.attackSamples + 1) = v.decaySamples + 1
                       /\ Abs(calls - (v.attackSamples + 1) - v.decaySamples) <= 1
                  /\ voices'[i].state \in {"decay", "sustain"}]_vars

\* C22 witness: a voice with an attack of 3 samples and a decay of 2 samples
\* has come to sustain, counter at 0, 4 + 3 process() calls after its noteOn.
C22_Witness ==
  \E i \in Indices(voices) :
    /\ voices[i].state = "sustain" /\ voices[i].envSamples = 0
    /\ voices[i].attackSamples = 3 /\ voices[i].decaySamples = 2
    /\ voices[i].onCalls = 7

\* C23: a process() call (the step that moves the phase counter of a voice no
\* noteOn has just claimed) leaves a voice in sustain in sustain, its stage
\* counter and stage data as they were, and computes the amplitude sustainLevel.  A voice in sustain leaves sustain, or the pool, only in the
\* step of a message: a noteOff with its id or an allNotesOff (to release), a
\* noteOn that claims it (to attack), a setPolyphony to fewer voices than its
\* index (dropped).
C23_SustainHeld ==
  [][\A i \in Indices(voices) :
       voices[i].state = "sustain" =>
         IF i > Len(voices')
         THEN \E n \in Polyphonies : SetPolyphony(n) /\ Max(1, n) < i
         ELSE /\ voices'[i].state # "sustain" =>
                   \/ /\ voices'[i].state = "attack" /\ voices'[i].claimed = "sustain"
                      /\ \E id \in Ids, f \in Freqs, e \in Overrides : NoteOn(id, f, e)
                   \/ /\ voices'[i].state = "release" /\ voices'[i].envSamples = 0
                      /\ \/ AllNotesOff
                         \/ \E id \in Ids : voices[i].noteId = id /\ NoteOff(id)
              /\ (voices'[i].samples # voices[i].samples /\ voices'[i].claimed = "") =>
                   /\ RenderStep
                   /\ voices'[i].state = "sustain"
                   /\ voices'[i].amp = <<voices[i].sustainLevel, LevelRes>>
                   /\ voices'[i].envSamples = voices[i].envSamples
                   /\ voices'[i].sustainLevel = voices[i].sustainLevel
                   /\ voices'[i].noteId = voices[i].noteId]_vars

\* C23 witness: a voice is in sustain after process() calls that found it in
\* sustain: its phase counter has moved on since the call that brought it there.
C23_Witness ==
  \E i \in Indices(voices) :
    /\ voices[i].state = "sustain"
    /\ voices[i].onCalls >= 0
    /\ voices[i].samples # voices[i].onCalls % SampleRate
    /\ voices[i].amp = <<voices[i].sustainLevel, LevelRes>>

\* C24: whatever envelope its noteOn was given (stage times negative, zero or
\* shorter than a sample, sustain outside [0, 1]), a voice that is not idle
\* has attackSamples, decaySamples and releaseSamples >= 1 and a sustainLevel
\* in [0, 1], so the division process() makes for its stage has a divisor that
\* is not 0; and nothing has been thrown.
C24_StageLengthsAtLeastOne ==
  /\ thrown = ""
  /\ \A i \in Indices(voices) :
       voices[i].state # "idle" =>
         /\ voices[i].attackSamples >= 1
         /\ voices[i].decaySamples >= 1
         /\ voices[i].releaseSamples >= 1
         /\ voices[i].sustainLevel >= 0 /\ voices[i].sustainLevel <= LevelRes
         /\ EnvAmp(voices[i])[2] # 0

\* C24 witness: a note whose envelope had an attack of at most 0, a decay of
\* 0, a negative release and a sustain above 1 is past the first process() call
\* of its release, one sample long, which computed the amplitude 1.
C24_Witness ==
  /\ thrown = ""
  /\ \E i \in Indices(voices) :
       /\ voices[i].state = "release" /\ voices[i].envSamples = 1
       /\ voices[i].amp = <<LevelRes, LevelRes>>
       /\ voices[i].attackSamples = 1 /\ voices[i].decaySamples = 1
       /\ voices[i].releaseSamples = 1 /\ voices[i].sustainLevel = LevelRes

\* C25: a setPolyphony{n} step leaves every voice at an index below
\* min(old size, n) as it was, in every field and at the same index; each
\* voice it appends is idle with noteId 0 and has never sounded; and when n is
\* the size of the pool it changes nothing at all.  (A setPolyphony step runs
\* outside a render block, and either changes the size of the pool or was
\* asked for the size it has.)
C25_ResizeKeepsSurvivors ==
  [][(frameCount = 0 /\ frameCount' = 0) => \A n \in Polyphonies :
       ((Len(voices') # Len(voices) \/ Max(1, n) = Len(voices)) /\ SetPolyphony(n)) =>
           /\ \A i \in 1..Min(Len(voices), n) :
                i <= Len(voices') /\ voices'[i] = voices[i]
           /\ \A i \in (Len(voices) + 1)..Len(voices') :
                /\ voices'[i].state = "idle" /\ voices'[i].noteId = 0
                /\ voices'[i].envSamples = 0 /\ voices'[i].samples = 0
           /\ n = Len(voices) => UNCHANGED vars]_vars

\* C25 witness: the pool holds two voices, the first in sustain under its
\* note's id and past its first sample, the second never used.
C25_Witness ==
  /\ Len(voices) = 2 /\ HandlerRuns
  /\ voices[1].state = "sustain" /\ voices[1].noteId > 0 /\ voices[1].samples > 0
  /\ voices[2].state = "idle" /\ voices[2].releaseSamples = 0

\* C26: in every reachable state a voice's stage counter is between 0 and the
\* length of its stage, so the amplitude process() computes from that state is
\* in [0, 1]: in attack within [0, 1], in decay within [sustainLevel, 1], in
\* sustain sustainLevel, in release within [0, sustainLevel]; and the amplitude
\* its last process() call computed was in [0, 1].
C26_CounterWithinStage ==
  \A i \in Indices(voices) :
    LET v == voices[i]
        a == EnvAmp(v)
    IN  /\ v.envSamples >= 0
        /\ v.state = "attack" => v.envSamples <= v.attackSamples
        /\ v.state = "decay" =>
             /\ v.envSamples <= v.decaySamples
             /\ v.sustainLevel * a[2] <= a[1] * LevelRes
        /\ v.state = "sustain" => a = <<v.sustainLevel, LevelRes>>
        /\ v.state = "release" =>
             /\ v.envSamples <= v.releaseSamples
             /\ a[1] * LevelRes <= v.sustainLevel * a[2]
        /\ a[2] > 0 /\ 0 <= a[1] /\ a[1] <= a[2]
        /\ v.amp[2] > 0 /\ 0 <= v.amp[1] /\ v.amp[1] <= v.amp[2]

\* C26 witness: the only voice of a pool cut to one voice, which every noteOn
\* claims, is at the top of an attack of 3 samples: its counter is at the
\* length of the stage.
C26_Witness ==
  /\ Len(voices) = 1
  /\ voices[1].state = "attack" /\ voices[1].attackSamples = 3
  /\ voices[1].envSamples = voices[1].attackSamples
  /\ voices[1].amp = <<2, 3>>

\* C27: an allNotesOff step leaves a voice that was in release in release with
\* its stage counter back at 0, so that the next process() call computes the
\* amplitude sustainLevel again; a noteOff step leaves a voice in release as it
\* was; and a voice forceRelease put into release becomes idle on exactly the
\* (releaseSamples + 1)-th process() call after the last allNotesOff, so an
\* allNotesOff that comes before that call keeps the voice from idle.
C27_AllNotesOffRestartsRelease ==
  [][\A i \in Kept :
       voices[i].state = "release" =>
         /\ (voices'[i].forcedCalls = 0 /\ AllNotesOff) =>
              /\ voices'[i].state = "release" /\ voices'[i].envSamples = 0
              /\ EnvAmp(voices'[i])[1] * LevelRes =
                   voices[i].sustainLevel * EnvAmp(voices'[i])[2]
         /\ AllNotesOff => voices'[i].forcedCalls = 0
         /\ \A id \in Ids : NoteOff(id) => voices'[i] = voices[i]
         /\ (voices[i].forcedCalls >= 0
               /\ voices'[i].forcedCalls = voices[i].forcedCalls + 1) =>
              (voices'[i].state = "idle" <=>
                 voices[i].forcedCalls + 1 = voices[i].releaseSamples + 1)]_vars

\* C27 witness: an allNotesOff has reached a voice part-way through a release
\* of 2 samples: the counter is back at 0 and no process() call has followed,
\* the last call having computed half the sustain level.
C27_Witness ==
  \E i \in Indices(voices) :
    /\ voices[i].state = "release" /\ voices[i].releaseSamples = 2
    /\ voices[i].envSamples = 0 /\ voices[i].forcedCalls = 0
    /\ voices[i].sustainLevel = 70
    /\ voices[i].amp = <<70, 200>>

\* The voices that sound under the id.
Owners(vs, id) == {i \in Indices(vs) : vs[i].state # "idle" /\ vs[i].noteId = id}

\* Some voice holds the id in attack, decay or sustain: a noteOff(id) step now
\* is not a stuttering step.
Held(id) ==
  \E i \in Indices(voices) :
    voices[i].noteId = id /\ voices[i].state \in {"attack", "decay", "sustain"}

\* After the step some voice is marked as just claimed under the id, as it is
\* after every noteOn for the id.
ClaimedFor(id) ==
  \E i \in Indices(voices') : voices'[i].claimed # "" /\ voices'[i].noteId = id

\* C28 (as stated): a noteOn for an id that a sounding voice holds claims
\* another voice and leaves every earlier owner as it was.
C28_DuplicateIdClaimsAnother ==
  [][ClaimStep => \A id \in Ids :
       Owners(voices, id) # {} =>
         \A f \in Freqs, e \in Overrides :
           NoteOn(id, f, e) =>
             \A i \in Owners(voices, id) : voices'[i] = voices[i]]_vars

\* C28 (amended): a noteOn for an id that sounding voices hold claims the
\* first idle voice, or the first voice of the pool when none is idle, whoever
\* holds the id.  Every earlier owner other than the claimed voice is left as
\* it was, so with an idle voice in the pool one more voice sounds under the
\* id; the claimed voice is itself an earlier owner only when no voice is idle
\* and the first voice holds the id, and it is then restarted.  After a
\* noteOff(id) no voice with that id is in attack, decay or sustain: each such
\* voice has gone to release.
C28_DuplicateIdsAllReleased ==
  [][/\ ClaimStep => \A id \in Ids :
          (Owners(voices, id) # {} /\ ClaimedFor(id)) =>
            \A f \in Freqs, e \in Overrides :
              NoteOn(id, f, e) =>
                LET free == FindIdle(voices, 1)
                    k == IF free # 0 THEN free ELSE 1
                IN  /\ voices'[k].state = "attack" /\ voices'[k].noteId = id
                    /\ voices'[k].envSamples = 0 /\ voices'[k].samples = 0
                    /\ \A i \in Owners(voices, id) \ {k} : voices'[i] = voices[i]
                    /\ free # 0 =>
                         Owners(voices', id) = Owners(voices, id) \cup {k}
                           /\ k \notin Owners(voices, id)
                    /\ k \in Owners(voices, id) => free = 0 /\ k = 1
     /\ \A id \in Ids :
          (Held(id) /\ NoteOff(id)) =>
            \A i \in Indices(voices) :
              /\ (voices[i].noteId = id /\ voices[i].state \in {"attack", "decay", "sustain"})
                   => voices'[i].state = "release" /\ voices'[i].noteId = id
              /\ voices'[i].noteId = id =>
                   voices'[i].state \notin {"attack", "decay", "sustain"}]_vars

\* C28 witness: both voices of a pool of two hold the id 1, the second
\* sounding since before, the first just claimed again by a noteOn{id: 1}
\* while it was sounding.
C28_Witness ==
  /\ Len(voices) = 2
  /\ voices[1].noteId = 1 /\ voices[2].noteId = 1
  /\ voices[2].state \in {"decay", "sustain"}
  /\ voices[1].state = "attack" /\ voices[1].claimed \in {"attack", "decay", "sustain"}

\* C29: the first process() call after a noteOff or a forceRelease put a voice
\* into release (the call that finds it in release with the stage counter at
\* 0) computes the amplitude sustainLevel, whatever amplitude the call before
\* it computed, and leaves the voice in release with the counter at 1.
C29_ReleaseStartsAtSustain ==
  [][\A i \in Kept :
       ( /\ voices[i].state = "release" /\ voices[i].envSamples = 0
         /\ voices'[i].samples # voices[i].samples /\ voices'[i].claimed = "" ) =>
         /\ RenderStep
         /\ voices'[i].amp[1] * LevelRes = voices[i].sustainLevel * voices'[i].amp[2]
         /\ voices'[i].state = "release" /\ voices'[i].envSamples = 1]_vars

\* C29 witness: a voice with sustain level 0.7 was released after the second
\* call of an attack of 3 samples, at amplitude 1/3, and has not been processed
\* since: the next call takes it up to 0.7.
C29_Witness ==
  \E i \in Indices(voices) :
    /\ voices[i].state = "release" /\ voices[i].envSamples = 0
    /\ voices[i].attackSamples = 3 /\ voices[i].sustainLevel = 70
    /\ voices[i].amp = <<1, 3>>

(* ------------------------------- progress ------------------------------ *)

\* A pass of process()'s loop, as a step of the port scenario.
Render == RenderStep /\ Direct

\* The messages that start and end notes.
LiveMessages ==
  {Synth_noteOn(1, 1, [attack |-> <<1>>, decay |-> <<10>>, sustain |-> <<70>>,
                       release |-> <<50>>]),
   Synth_noteOff(1),
   [NoMessage EXCEPT !.type = "allNotesOff"]}

NextLive ==
  \/ \E msg \in LiveMessages : Post(msg)
  \/ Deliver
  \/ \E n \in 1..MaxFrames, g \in Volumes : ProcessStart(n, g) /\ Direct
  \/ \E g \in Volumes : ProcessNext(g) /\ Direct

\* The port with its scheduling: the host keeps calling process() with a
\* channel and at least one frame (a pass of the loop is possible in every
\* state), and the event loop hands over every posted message in the end,
\* between two blocks (a handler cannot run inside a block, so delivery is
\* possible again and again rather than continuously).  Messages stop
\* arriving: at most MaxPosts are ever posted.
SpecLive == Init /\ [][NextLive]_vars /\ WF_vars(Render) /\ SF_vars(Deliver)

\* Every message that is ever posted has been handled: none arrives later.
NoLaterMessage == Len(log) = MaxPosts

AllAtRest ==
  \A i \in Indices(voices) :
    /\ voices[i].state \in {"sustain", "idle"}
    /\ voices[i].state = "idle" => voices[i].noteId = 0

AllIdle == \A i \in Indices(voices) : voices[i].state = "idle" /\ voices[i].noteId = 0

\* C30: while process() keeps being called with a channel and a frame, and
\* once the messages have stopped, every voice of the pool comes to rest for
\* good in sustain or in idle with noteId 0 (no voice stays in attack, decay or
\* release); and when the last message handled is an allNotesOff, every voice
\* of the pool becomes idle and stays idle.
C30_VoicesComeToRest ==
  /\ <>[]AllAtRest
  /\ [](NoLaterMessage => <>[]AllAtRest)
  /\ []((NoLaterMessage /\ log[MaxPosts].type = "allNotesOff") => <>[]AllIdle)

\* C30 witness: a note was started, an allNotesOff was the last message
\* handled, and the voice that sounded has been rendered to idle, noteId 0.
C30_Witness ==
  /\ NoLaterMessage /\ log[MaxPosts].type = "allNotesOff"
  /\ \E k \in 1..MaxPosts : log[k].type = "noteOn"
  /\ AllIdle
  /\ \E i \in Indices(voices) : voices[i].releaseSamples > 0 /\ voices[i].samples > 0

====
